---- MODULE Spec2Model ----
(***************************************************************************)
(* Model of ProductRepository (src/src/repositories/product.repositories.js)*)
(* over a relational store with three tables: Products, Inventory, Shops.  *)
(*                                                                         *)
(* The store is modelled as its committed rows plus, per caller, the       *)
(* pending writes of the caller's open transaction.  Statements issued on  *)
(* the pool run in autocommit mode and are atomic; statements issued on a  *)
(* transaction write to the pending set and lock the rows they touch; a    *)
(* statement that needs a row locked by another transaction waits.         *)
(***************************************************************************)
EXTENDS Integers, Sequences, FiniteSets, TLC

VARIABLES
  Products,   \* committed rows of table Products, product_id = index
  Inventory,  \* committed rows of table Inventory, id = index
  Shops,      \* rows of table Shops, keyed by shop_id (never written here)
  now,        \* value GETDATE() returns; it advances between two creates
  pc,         \* per caller: position inside softDelete, or "idle"
  txn,        \* per caller: the sql.Transaction of its softDelete call
  counted,    \* per caller: the arguments and the total of its running findAll
  last        \* outcome of the call that finished last, NoCall once a call
              \* of several statements has begun

vars == <<Products, Inventory, Shops, now, pc, txn, counted, last>>

-----------------------------------------------------------------------------
(* Bounds *)

MaxProducts == 2
MaxInventory == 2
MaxSharedProducts == 1

Callers == {"c1", "c2"}
ShopIds == {1, 2}

-----------------------------------------------------------------------------
(* Values *)

\* SQL NULL / JavaScript null, and a non-null column value
NULL == [null |-> TRUE]
Val(v) == [null |-> FALSE, v |-> v]

\* JavaScript undefined (absent argument or absent property)
Undefined == [undefined |-> TRUE]

\* text values are sequences of characters
\* argument values the callers pass
DescriptionArgs == {Undefined, Val(<<>>)}
ShopArgs == {1, 2, 3}
ProductArgs == 1..(MaxProducts + 1)

-----------------------------------------------------------------------------
(* Errors *)

\* error number SQL Server reports for a violated UNIQUE constraint
UniqueViolation == 2627
\* error number SQL Server reports for a violated FOREIGN KEY constraint
ForeignKeyViolation == 547

\* an error object raised by the driver; number = 0 when it carries none
StorageError(msg, num) == [message |-> msg, number |-> num, raw |-> TRUE]
ConnectionError == StorageError("connection lost", 0)
UniqueError == StorageError("unique constraint violated", UniqueViolation)
ForeignKeyError == StorageError("foreign key violated", ForeignKeyViolation)
RollbackError == StorageError("rollback failed", 0)

\* new Error(message): a fresh object that keeps only the message
NewError(msg) == [message |-> msg, number |-> 0, raw |-> FALSE]

\* catch (error) { throw new Error(error.message) }
Rewrap(e) == NewError(e.message)

-----------------------------------------------------------------------------
(* Transactions and locks *)

\* open: begun and neither committed nor rolled back; inv, prod: the rows its
\* statements have updated (pending until commit) and the GETDATE() they wrote;
\* affected: result.recordset.length of the product UPDATE; pre, wasActive:
\* the inventory rows of the product that were active, and whether the product
\* was, when the call began; failedAt, err: the step that threw and the error
\* the catch block holds
NoTxn == [open |-> FALSE, productId |-> 0, inv |-> {}, invAt |-> 0,
          prod |-> FALSE, prodAt |-> 0, affected |-> 0, pre |-> {},
          wasActive |-> FALSE, failedAt |-> "none", err |-> NULL]

ProductIds == 1..Len(Products)
InventoryIds == 1..Len(Inventory)

\* rows another caller's open transaction has updated and still holds locked
\* (a caller's own transaction does not block the statements issued on it)
Foreign(c, d) == d # c \/ pc[c] = "idle"

InventoryLocked(c, id) ==
  \E d \in Callers : Foreign(c, d) /\ txn[d].open /\ id \in txn[d].inv

ProductLocked(c, pid) ==
  \E d \in Callers :
    Foreign(c, d) /\ txn[d].open /\ txn[d].prod /\ txn[d].productId = pid

\* outcome record of a finished call
Outcome(op, args, result, error, stmts) ==
  [op |-> op, args |-> args, result |-> result,
   error |-> error, stmts |-> stmts]

NoCall == Outcome("none", NULL, NULL, NULL, 0)

-----------------------------------------------------------------------------
(* Initial state *)

ShopRows == {[name |-> <<"s">>, is_active |-> a, is_deleted |-> d] :
               a \in {0, 1}, d \in {0, 1}}

Init ==
  /\ Products = <<>>
  /\ Inventory = <<>>
  /\ Shops \in {s \in [ShopIds -> ShopRows] :
                  /\ s[1].is_active = 1 /\ s[1].is_deleted = 0
                  /\ s[2].is_active = 1 /\ s[2].is_deleted = 1}
  /\ now = 1
  /\ pc = [c \in Callers |-> "idle"]
  /\ txn = [c \in Callers |-> NoTxn]
  /\ counted = [c \in Callers |-> NULL]
  /\ last = NoCall

-----------------------------------------------------------------------------
(* create *)

\* description || null : the empty string and undefined both become NULL
DescriptionOrNull(description) ==
  IF description = Undefined \/ description = NULL \/ description.v = <<>>
    THEN NULL ELSE description

\* image_url = null : the default of an absent argument
ImageUrlOrDefault(image_url) ==
  IF image_url = Undefined THEN NULL ELSE image_url

\* the row INSERT INTO Products produces; is_deleted, deleted_at and
\* created_at take the column defaults
NewProductRow(name, description, Base_Price, image_url) ==
  [name |-> name,
   description |-> DescriptionOrNull(description),
   Base_Price |-> Base_Price,
   image_url |-> ImageUrlOrDefault(image_url),
   created_at |-> now,
   deleted_at |-> NULL,
   is_deleted |-> 0]

WithId(row, id) == [product_id |-> id] @@ row

Create(c, name, description, Base_Price, image_url) ==
  /\ pc[c] = "idle"
  /\ LET row == NewProductRow(name, description, Base_Price, image_url)
         id == Len(Products) + 1
     IN /\ Products' = Append(Products, row)
        /\ now' = now + 1
        /\ last' = Outcome("create", NULL, WithId(row, id), NULL, 1)
  /\ UNCHANGED <<Inventory, Shops, pc, txn, counted>>

\* the INSERT fails in the store: the catch block rewraps the error
CreateFail(c) ==
  /\ pc[c] = "idle"
  /\ last' = Outcome("create", NULL, NULL, Rewrap(ConnectionError), 1)
  /\ UNCHANGED <<Products, Inventory, Shops, now, pc, txn, counted>>

-----------------------------------------------------------------------------
(* update *)

\* the SET clauses collected from the properties of data that are defined
UpdateFields(data) ==
  {f \in {"name", "description", "Base_Price"} : data[f] # Undefined}

\* (mutant) an absent description written as NULL
PatchedRowAbsentAsNull(row, data) ==
  [row EXCEPT
     !.name = IF "name" \in UpdateFields(data) THEN data.name.v ELSE @,
     !.description =
        IF "description" \in UpdateFields(data) THEN data.description ELSE NULL,
     !.Base_Price =
        IF "Base_Price" \in UpdateFields(data) THEN data.Base_Price.v ELSE @]

\* UPDATE Products SET <fields present> on one row
PatchedRow(row, data) ==
  [row EXCEPT
     !.name = IF "name" \in UpdateFields(data) THEN data.name.v ELSE @,
     !.description =
        IF "description" \in UpdateFields(data) THEN data.description ELSE @,
     !.Base_Price =
        IF "Base_Price" \in UpdateFields(data) THEN data.Base_Price.v ELSE @]

\* (mutant) the WHERE clause without is_deleted = 0
UpdateTargetAnyRow(productId) == {id \in ProductIds : id = productId}

\* WHERE product_id = @productId AND is_deleted = 0
UpdateTarget(productId) ==
  {id \in ProductIds : id = productId /\ Products[id].is_deleted = 0}

\* (mutant) the check of updates.length left out
NoUpdatesUnchecked(data) == FALSE

\* if (!updates.length) : no property of data contributed a SET clause
NoUpdates(data) == UpdateFields(data) = {}

Update(c, productId, data) ==
  /\ pc[c] = "idle"
  /\ LET args == [productId |-> productId, data |-> data,
                  before |-> IF productId \in ProductIds
                               THEN Val(Products[productId]) ELSE NULL]
         target == UpdateTarget(productId)
     IN IF NoUpdates(data)
          \* throw new Error('No fields to update'), rewrapped by the catch
          \* block; no statement has been issued
          THEN /\ Products' = Products
               /\ last' = Outcome("update", args, NULL,
                                  Rewrap(NewError("No fields to update")), 0)
          ELSE /\ ~ProductLocked(c, productId)
               /\ Products' = [id \in ProductIds |->
                                 IF id \in target
                                   THEN PatchedRow(Products[id], data)
                                   ELSE Products[id]]
               \* return result.recordset[0] || null
               /\ last' = Outcome("update", args,
                                  IF target = {} THEN NULL
                                  ELSE WithId(PatchedRow(Products[productId],
                                                         data), productId),
                                  NULL, 1)
  /\ UNCHANGED <<Inventory, Shops, now, pc, txn, counted>>

\* the UPDATE fails in the store: the catch block rewraps the error
UpdateFail(c, data) ==
  /\ pc[c] = "idle"
  /\ ~NoUpdates(data)
  /\ last' = Outcome("update", NULL, NULL, Rewrap(ConnectionError), 1)
  /\ UNCHANGED <<Products, Inventory, Shops, now, pc, txn, counted>>

-----------------------------------------------------------------------------
(* addToInventory *)

\* Inventory.product_id references Products, Inventory.shop_id references Shops
ForeignKeysHold(shopId, productId) ==
  productId \in ProductIds /\ shopId \in ShopIds

\* the active rows the uniqueness constraint compares a new row against
ActivePairRows(shopId, productId) ==
  {id \in InventoryIds : /\ Inventory[id].shop_id = shopId
                         /\ Inventory[id].product_id = productId
                         /\ Inventory[id].is_deleted = 0}

\* rows of the pair that another transaction holds locked
PairRowsLocked(c, shopId, productId) ==
  \E id \in InventoryIds : /\ Inventory[id].shop_id = shopId
                           /\ Inventory[id].product_id = productId
                           /\ InventoryLocked(c, id)

\* the error the store raises for the INSERT, or NULL when it accepts the row
InsertInventoryError(shopId, productId) ==
  IF ~ForeignKeysHold(shopId, productId) THEN ForeignKeyError
  ELSE IF ActivePairRows(shopId, productId) # {} THEN UniqueError
  ELSE NULL

\* (mutant) every error of the INSERT reported as the duplicate
TranslateEveryError(error) == NewError("Product already exists in inventory")

\* catch (error) { if (error.number === 2627) throw new Error(...); throw error }
TranslateInventoryError(error) ==
  IF error.number = UniqueViolation
    THEN NewError("Product already exists in inventory")
    ELSE error

NewInventoryRow(shopId, productId, stock_quantity, selling_price, unit) ==
  [shop_id |-> shopId,
   product_id |-> productId,
   stock_quantity |-> stock_quantity,
   selling_price |-> selling_price,
   unit |-> unit,
   is_deleted |-> 0,
   deleted_at |-> NULL]

InventoryWithId(row, id) == [id |-> id] @@ row

AddToInventory(c, shopId, productId, stock_quantity, selling_price, unit) ==
  /\ pc[c] = "idle"
  /\ ~ProductLocked(c, productId)
  /\ ~PairRowsLocked(c, shopId, productId)
  /\ LET error == InsertInventoryError(shopId, productId)
         row == NewInventoryRow(shopId, productId, stock_quantity,
                                selling_price, unit)
         args == [shopId |-> shopId, productId |-> productId,
                  before |-> Inventory]
     IN IF error = NULL
          THEN /\ Inventory' = Append(Inventory, row)
               /\ last' = Outcome("addToInventory", args,
                                  InventoryWithId(row, Len(Inventory) + 1),
                                  NULL, 1)
          ELSE /\ Inventory' = Inventory
               /\ last' = Outcome("addToInventory", args, NULL,
                                  TranslateInventoryError(error), 1)
  /\ UNCHANGED <<Products, Shops, now, pc, txn, counted>>

\* the INSERT fails for a reason other than a constraint
AddToInventoryFail(c) ==
  /\ pc[c] = "idle"
  /\ last' = Outcome("addToInventory", NULL, NULL,
                     TranslateInventoryError(ConnectionError), 1)
  /\ UNCHANGED <<Products, Inventory, Shops, now, pc, txn, counted>>

-----------------------------------------------------------------------------
(* softDelete *)

\* UPDATE Inventory ... WHERE product_id = @productId AND is_deleted = 0
InventoryTarget(productId) ==
  {id \in InventoryIds : /\ Inventory[id].product_id = productId
                         /\ Inventory[id].is_deleted = 0}

\* UPDATE Products ... WHERE product_id = @productId AND is_deleted = 0
ProductTarget(productId) ==
  {id \in ProductIds : id = productId /\ Products[id].is_deleted = 0}

\* (mutant) the SET clause without deleted_at
SoftDeletedFlagOnly(row, at) == [row EXCEPT !.is_deleted = 1]

\* SET is_deleted = 1, deleted_at = GETDATE()
SoftDeleted(row, at) == [row EXCEPT !.is_deleted = 1, !.deleted_at = Val(at)]

\* (mutant) return true whatever the product UPDATE affected
SoftDeleteResultAlwaysTrue(t) == TRUE

\* return result.recordset.length > 0
SoftDeleteResult(t) == t.affected > 0

\* what the outcome of a softDelete call records about the call
SoftDeleteArgs(t) ==
  [productId |-> t.productId, pre |-> t.pre, wasActive |-> t.wasActive,
   inv |-> t.inv, failedAt |-> t.failedAt]

\* await tx.begin()
SoftDeleteBegin(c, productId) ==
  /\ pc[c] = "idle"
  /\ ~txn[c].open
  /\ txn' = [txn EXCEPT ![c] = [NoTxn EXCEPT !.open = TRUE,
                                             !.productId = productId,
                                             !.pre = InventoryTarget(productId),
                                             !.wasActive =
                                               ProductTarget(productId) # {}]]
  /\ pc' = [pc EXCEPT ![c] = "begun"]
  /\ last' = NoCall
  /\ UNCHANGED <<Products, Inventory, Shops, now, counted>>

\* tx.begin() throws: it is outside the try block, the error goes to the caller
SoftDeleteBeginFail(c, productId) ==
  /\ pc[c] = "idle"
  /\ ~txn[c].open
  /\ last' = Outcome("softDelete",
                     SoftDeleteArgs([NoTxn EXCEPT !.productId = productId,
                                                  !.failedAt = "begin"]),
                     NULL, ConnectionError, 0)
  /\ UNCHANGED <<Products, Inventory, Shops, now, pc, txn, counted>>

\* (mutant) the inventory UPDATE issued on the pool: it commits at once
SoftDeleteInventoryOnPool(c) ==
  /\ pc[c] = "begun"
  /\ LET target == InventoryTarget(txn[c].productId)
     IN /\ \A id \in target : ~InventoryLocked(c, id)
        /\ Inventory' = [id \in InventoryIds |->
                           IF id \in target
                             THEN [Inventory[id] EXCEPT
                                     !.is_deleted = 1, !.deleted_at = Val(now)]
                             ELSE Inventory[id]]
  /\ pc' = [pc EXCEPT ![c] = "invDone"]
  /\ UNCHANGED <<Products, Shops, now, txn, counted, last>>

\* the inventory UPDATE, issued on the transaction
SoftDeleteInventory(c) ==
  /\ pc[c] = "begun"
  /\ LET target == InventoryTarget(txn[c].productId)
     IN /\ \A id \in target : ~InventoryLocked(c, id)
        /\ txn' = [txn EXCEPT ![c].inv = target, ![c].invAt = now]
  /\ pc' = [pc EXCEPT ![c] = "invDone"]
  /\ UNCHANGED <<Products, Inventory, Shops, now, counted, last>>

\* the product UPDATE, issued on the transaction
SoftDeleteProduct(c) ==
  /\ pc[c] = "invDone"
  /\ ~ProductLocked(c, txn[c].productId)
  /\ LET target == ProductTarget(txn[c].productId)
     IN txn' = [txn EXCEPT ![c].prod = (target # {}),
                           ![c].prodAt = now,
                           ![c].affected = Cardinality(target)]
  /\ pc' = [pc EXCEPT ![c] = "prodDone"]
  /\ UNCHANGED <<Products, Inventory, Shops, now, counted, last>>

\* the rows of a table once the pending writes of transaction t are applied
CommittedInventory(t) ==
  [id \in InventoryIds |->
     IF id \in t.inv THEN SoftDeleted(Inventory[id], t.invAt)
                     ELSE Inventory[id]]

CommittedProducts(t) ==
  [id \in ProductIds |->
     IF t.prod /\ id = t.productId THEN SoftDeleted(Products[id], t.prodAt)
                                   ELSE Products[id]]

\* await tx.commit(); return result.recordset.length > 0
SoftDeleteCommit(c) ==
  /\ pc[c] = "prodDone"
  /\ Inventory' = CommittedInventory(txn[c])
  /\ Products' = CommittedProducts(txn[c])
  /\ last' = Outcome("softDelete", SoftDeleteArgs(txn[c]),
                     SoftDeleteResult(txn[c]), NULL, 2)
  /\ txn' = [txn EXCEPT ![c] = NoTxn]
  /\ pc' = [pc EXCEPT ![c] = "idle"]
  /\ UNCHANGED <<Shops, now, counted>>

\* a statement of the try block (or the commit) throws: control enters catch
SoftDeleteThrow(c, step) ==
  /\ \/ pc[c] = "begun" /\ step = "inventory"
     \/ pc[c] = "invDone" /\ step = "product"
     \/ pc[c] = "prodDone" /\ step = "commit"
  /\ txn' = [txn EXCEPT ![c].failedAt = step, ![c].err = ConnectionError]
  /\ pc' = [pc EXCEPT ![c] = "catch"]
  /\ UNCHANGED <<Products, Inventory, Shops, now, counted, last>>

\* (mutant) a compensating UPDATE in place of the rollback: it sets
\* is_deleted = 0 on every inventory row of the product
SoftDeleteRollbackCompensating(c) ==
  /\ pc[c] = "catch"
  /\ Inventory' = [id \in InventoryIds |->
                     IF Inventory[id].product_id = txn[c].productId
                       THEN [Inventory[id] EXCEPT !.is_deleted = 0,
                                                  !.deleted_at = NULL]
                       ELSE Inventory[id]]
  /\ last' = Outcome("softDelete", SoftDeleteArgs(txn[c]), NULL,
                     txn[c].err, 0)
  /\ txn' = [txn EXCEPT ![c] = NoTxn]
  /\ pc' = [pc EXCEPT ![c] = "idle"]
  /\ UNCHANGED <<Products, Shops, now, counted>>

\* catch (err) { await tx.rollback(); throw err }
SoftDeleteRollback(c) ==
  /\ pc[c] = "catch"
  /\ last' = Outcome("softDelete", SoftDeleteArgs(txn[c]), NULL,
                     txn[c].err, 0)
  /\ txn' = [txn EXCEPT ![c] = NoTxn]
  /\ pc' = [pc EXCEPT ![c] = "idle"]
  /\ UNCHANGED <<Products, Inventory, Shops, now, counted>>

\* a transaction nobody will end: it keeps its pending writes and their locks
StillOpen(t) ==
  [NoTxn EXCEPT !.open = TRUE, !.productId = t.productId,
                !.inv = t.inv, !.prod = t.prod]

\* tx.rollback() itself throws: its error replaces err; the transaction is
\* either gone (the server aborted it) or still open on its connection
SoftDeleteRollbackFail(c, stillOpen) ==
  /\ pc[c] = "catch"
  /\ last' = Outcome("softDelete", SoftDeleteArgs(txn[c]), NULL,
                     RollbackError, 0)
  /\ txn' = [txn EXCEPT ![c] = IF stillOpen THEN StillOpen(@) ELSE NoTxn]
  /\ pc' = [pc EXCEPT ![c] = "idle"]
  /\ UNCHANGED <<Products, Inventory, Shops, now, counted>>

-----------------------------------------------------------------------------
(* Reads.  A SELECT issued on the pool sees the committed rows. *)

\* if (x) : null, undefined and 0 are falsy
Truthy(x) == x # NULL /\ x # Undefined /\ x.v # 0

\* text LIKE '%' + pattern + '%'; NULL LIKE anything is not true
Like(text, pattern) ==
  /\ text # NULL
  /\ \E i \in 1..(Len(text.v) + 1) :
       /\ i + Len(pattern) - 1 <= Len(text.v)
       /\ SubSeq(text.v, i, i + Len(pattern) - 1) = pattern

\* the select list of the joined queries; i = NULL when the LEFT JOIN found no
\* inventory row
JoinedRow(pid, i) ==
  LET p == Products[pid]
      some == i # NULL
      r == Inventory[i.v]
  IN [product_id |-> pid,
      name |-> p.name,
      description |-> p.description,
      Base_Price |-> p.Base_Price,
      image_url |-> p.image_url,
      created_at |-> p.created_at,
      inventory_id |-> IF some THEN Val(i.v) ELSE NULL,
      shop_id |-> IF some THEN Val(r.shop_id) ELSE NULL,
      stock_quantity |-> IF some THEN Val(r.stock_quantity) ELSE NULL,
      selling_price |-> IF some THEN Val(r.selling_price) ELSE NULL,
      unit |-> IF some THEN Val(r.unit) ELSE NULL,
      shop_name |-> IF some /\ r.shop_id \in ShopIds
                      THEN Val(Shops[r.shop_id].name) ELSE NULL]

\* the select list of the plain product query
ProductRow(pid) ==
  LET p == Products[pid]
  IN [product_id |-> pid,
      name |-> p.name,
      description |-> p.description,
      Base_Price |-> p.Base_Price,
      image_url |-> p.image_url,
      created_at |-> p.created_at]

\* recordset[0] || null, for a recordset whose row order the store chooses
FirstOrNull(recordset) == IF recordset = {} THEN {NULL} ELSE recordset

(* findById *)

\* LEFT JOIN Inventory i ON p.product_id = i.product_id
\*   AND i.shop_id = @shopId AND i.is_deleted = 0
FindByIdInventory(productId, shopId) ==
  {id \in InventoryIds : /\ Inventory[id].product_id = productId
                         /\ Inventory[id].shop_id = shopId
                         /\ Inventory[id].is_deleted = 0}

\* AND (s.is_deleted = 0 OR s.shop_id IS NULL), s being the shop row the
\* second LEFT JOIN found for inventory row id
FindByIdShopFilter(id) ==
  LET sid == Inventory[id].shop_id
  IN sid \in ShopIds => Shops[sid].is_deleted = 0

\* the recordset of the query with a shop
FindByIdWithShop(productId, shopId) ==
  LET matched == FindByIdInventory(productId, shopId)
      found == {pid \in ProductIds :
                  pid = productId /\ Products[pid].is_deleted = 0}
  IN IF matched = {}
       THEN {JoinedRow(pid, NULL) : pid \in found}
       ELSE {JoinedRow(pid, Val(id)) :
               pid \in found, id \in {m \in matched : FindByIdShopFilter(m)}}

\* the recordset of the query without a shop
FindByIdPlain(productId) ==
  {ProductRow(pid) : pid \in {q \in ProductIds :
                                q = productId /\ Products[q].is_deleted = 0}}

\* the values findById(productId, shopId) may return
FindByIdResults(productId, shopId) ==
  IF Truthy(shopId)
    THEN FirstOrNull(FindByIdWithShop(productId, shopId.v))
    ELSE FirstOrNull(FindByIdPlain(productId))

FindById(c, productId, shopId) ==
  /\ pc[c] = "idle"
  /\ \E result \in FindByIdResults(productId, shopId) :
       last' = Outcome("findById",
                       [productId |-> productId, shopId |-> shopId],
                       result, NULL, 1)
  /\ UNCHANGED <<Products, Inventory, Shops, now, pc, txn, counted>>

\* the SELECT fails in the store: the catch block rewraps the error
FindByIdFail(c) ==
  /\ pc[c] = "idle"
  /\ last' = Outcome("findById", NULL, NULL, Rewrap(ConnectionError), 1)
  /\ UNCHANGED <<Products, Inventory, Shops, now, pc, txn, counted>>

(* checkAvailability *)

\* (mutant) the query without s.is_active = 1
AvailabilityRowsAnyShop(productId, shopId) ==
  {id \in InventoryIds :
     /\ Inventory[id].product_id \in ProductIds
     /\ Inventory[id].shop_id \in ShopIds
     /\ Inventory[id].product_id = productId
     /\ Inventory[id].shop_id = shopId
     /\ Products[Inventory[id].product_id].is_deleted = 0
     /\ Inventory[id].is_deleted = 0
     /\ Shops[Inventory[id].shop_id].is_deleted = 0}

\* (mutant) the query without p.is_deleted = 0
AvailabilityRowsAnyProduct(productId, shopId) ==
  {id \in InventoryIds :
     /\ Inventory[id].product_id \in ProductIds
     /\ Inventory[id].shop_id \in ShopIds
     /\ Inventory[id].product_id = productId
     /\ Inventory[id].shop_id = shopId
     /\ Inventory[id].is_deleted = 0
     /\ Shops[Inventory[id].shop_id].is_active = 1
     /\ Shops[Inventory[id].shop_id].is_deleted = 0}

\* the recordset: inventory rows joined to their product and shop
AvailabilityRows(productId, shopId) ==
  {id \in InventoryIds :
     /\ Inventory[id].product_id \in ProductIds
     /\ Inventory[id].shop_id \in ShopIds
     /\ Inventory[id].product_id = productId
     /\ Inventory[id].shop_id = shopId
     /\ Products[Inventory[id].product_id].is_deleted = 0
     /\ Inventory[id].is_deleted = 0
     /\ Shops[Inventory[id].shop_id].is_active = 1
     /\ Shops[Inventory[id].shop_id].is_deleted = 0}

Availability(row) ==
  [exists |-> TRUE,
   available |-> row.stock_quantity > 0,
   stock_quantity |-> row.stock_quantity]

\* the values checkAvailability(productId, shopId) may return
CheckAvailabilityResults(productId, shopId) ==
  FirstOrNull({Availability(Inventory[id]) :
                 id \in AvailabilityRows(productId, shopId)})

CheckAvailability(c, productId, shopId) ==
  /\ pc[c] = "idle"
  /\ \E result \in CheckAvailabilityResults(productId, shopId) :
       last' = Outcome("checkAvailability",
                       [productId |-> productId, shopId |-> shopId],
                       result, NULL, 1)
  /\ UNCHANGED <<Products, Inventory, Shops, now, pc, txn, counted>>

\* the SELECT fails in the store: there is no catch block
CheckAvailabilityFail(c) ==
  /\ pc[c] = "idle"
  /\ last' = Outcome("checkAvailability", NULL, NULL, ConnectionError, 1)
  /\ UNCHANGED <<Products, Inventory, Shops, now, pc, txn, counted>>

(* findAll *)

\* Math.max / Math.min
Max(a, b) == IF a >= b THEN a ELSE b
Min(a, b) == IF a <= b THEN a ELSE b

\* a default parameter value replaces undefined only
OrDefault(x, d) == IF x = Undefined THEN d ELSE x.v

\* (mutant) the limit without Math.min(100, ...)
PaginateNoUpperClamp(page, limit) ==
  LET safePage == Max(1, OrDefault(page, 1))
      safeLimit == Max(1, OrDefault(limit, 20))
  IN [safePage |-> safePage, safeLimit |-> safeLimit,
      offset |-> (safePage - 1) * safeLimit]

\* _paginate(page = 1, limit = 20), for integer arguments
Paginate(page, limit) ==
  LET safePage == Max(1, OrDefault(page, 1))
      safeLimit == Min(100, Max(1, OrDefault(limit, 20)))
  IN [safePage |-> safePage, safeLimit |-> safeLimit,
      offset |-> (safePage - 1) * safeLimit]

\* (mutant) Math.floor in place of Math.ceil
MathFloor(a, b) == a \div b

\* Math.ceil(a / b) for integers a >= 0, b > 0
MathCeil(a, b) == IF a % b = 0 THEN a \div b ELSE (a \div b) + 1

\* the inventory rows whose join with product and shop passes the WHERE clause
ListMatches(search, shop_id) ==
  {id \in InventoryIds :
     /\ Inventory[id].product_id \in ProductIds
     /\ Inventory[id].shop_id \in ShopIds
     /\ Products[Inventory[id].product_id].is_deleted = 0
     /\ Inventory[id].is_deleted = 0
     /\ Shops[Inventory[id].shop_id].is_deleted = 0
     /\ Shops[Inventory[id].shop_id].is_active = 1
     /\ (Truthy(shop_id) => Inventory[id].shop_id = shop_id.v)
     /\ (search # <<>> =>
           \/ Like(Val(Products[Inventory[id].product_id].name), search)
           \/ Like(Products[Inventory[id].product_id].description, search))}

\* SELECT COUNT(DISTINCT p.product_id)
CountDistinct(search, shop_id) ==
  Cardinality({Inventory[id].product_id : id \in ListMatches(search, shop_id)})

\* ORDER BY p.created_at DESC: every order of the rows that respects it
Orderings(ids) ==
  {q \in [1..Cardinality(ids) -> ids] :
     /\ \A i, j \in DOMAIN q : i # j => q[i] # q[j]
     /\ \A i, j \in DOMAIN q :
          i < j => Products[Inventory[q[i]].product_id].created_at
                     >= Products[Inventory[q[j]].product_id].created_at}

\* OFFSET @offset ROWS FETCH NEXT @limit ROWS ONLY
FetchPage(q, offset, limit) ==
  [k \in 1..Max(0, Min(limit, Len(q) - offset)) |-> q[offset + k]]

\* the recordsets the data query may return
ListPages(search, shop_id, offset, limit) ==
  {[k \in DOMAIN page |->
      JoinedRow(Inventory[page[k]].product_id, Val(page[k]))] :
     page \in {FetchPage(q, offset, limit) :
                 q \in Orderings(ListMatches(search, shop_id))}}

ListResult(total, paging, products) ==
  [products |-> products,
   pagination |-> [total |-> total,
                   page |-> paging.safePage,
                   limit |-> paging.safeLimit,
                   totalPages |-> MathCeil(total, paging.safeLimit)]]

\* the count query: const total = countResult.recordset[0]?.total || 0
FindAllCount(c, page, limit, search, shop_id) ==
  /\ pc[c] = "idle"
  /\ counted' = [counted EXCEPT ![c] =
                   [page |-> page, limit |-> limit, search |-> search,
                    shop_id |-> shop_id,
                    total |-> CountDistinct(search, shop_id)]]
  /\ pc' = [pc EXCEPT ![c] = "counted"]
  /\ last' = NoCall
  /\ UNCHANGED <<Products, Inventory, Shops, now, txn>>

\* the data query and the return
FindAllData(c) ==
  /\ pc[c] = "counted"
  /\ LET a == counted[c]
         paging == Paginate(a.page, a.limit)
     IN \E products \in ListPages(a.search, a.shop_id,
                                  paging.offset, paging.safeLimit) :
          last' = Outcome("findAll",
                          [page |-> a.page, limit |-> a.limit,
                           search |-> a.search, shop_id |-> a.shop_id],
                          ListResult(a.total, paging, products), NULL, 2)
  /\ counted' = [counted EXCEPT ![c] = NULL]
  /\ pc' = [pc EXCEPT ![c] = "idle"]
  /\ UNCHANGED <<Products, Inventory, Shops, now, txn>>

\* either query fails in the store: the catch block rewraps the error
FindAllFail(c) ==
  /\ pc[c] \in {"idle", "counted"}
  /\ last' = Outcome("findAll", NULL, NULL, Rewrap(ConnectionError),
                     IF pc[c] = "idle" THEN 1 ELSE 2)
  /\ counted' = [counted EXCEPT ![c] = NULL]
  /\ pc' = [pc EXCEPT ![c] = "idle"]
  /\ UNCHANGED <<Products, Inventory, Shops, now, txn>>

\* the values findAll may return when both queries see the same rows
FindAllResults(page, limit, search, shop_id) ==
  LET paging == Paginate(page, limit)
  IN {ListResult(CountDistinct(search, shop_id), paging, products) :
        products \in ListPages(search, shop_id,
                               paging.offset, paging.safeLimit)}

-----------------------------------------------------------------------------
(* Specifications *)

NoData == [name |-> Undefined, description |-> Undefined,
           Base_Price |-> Undefined]

\* the INSERTs into Inventory stop when the table holds maxI rows
Room(maxI, shopId, productId) ==
  InsertInventoryError(shopId, productId) = NULL => Len(Inventory) < maxI

\* Spec: two callers whose calls interleave at every await, over few values
Rename == [NoData EXCEPT !.name = Val(<<"a", "b">>)]
Pcs == <<"p", "c", "s">>

Next ==
  \E c \in Callers :
    \/ Len(Products) < MaxSharedProducts
         /\ Create(c, <<"a">>, Undefined, 100, Undefined)
    \/ \E productId \in 1..(MaxSharedProducts + 1), data \in {NoData, Rename} :
         Update(c, productId, data)
    \/ \E shopId \in ShopIds, productId \in 1..(MaxSharedProducts + 1) :
         /\ Room(MaxInventory, shopId, productId)
         /\ AddToInventory(c, shopId, productId, 5, 100, Pcs)
    \/ \E productId \in 1..(MaxSharedProducts + 1) :
         \/ SoftDeleteBegin(c, productId)
         \/ SoftDeleteBeginFail(c, productId)
    \/ SoftDeleteInventory(c)
    \/ SoftDeleteProduct(c)
    \/ SoftDeleteCommit(c)
    \/ \E step \in {"inventory", "product", "commit"} : SoftDeleteThrow(c, step)
    \/ SoftDeleteRollback(c)
    \/ \E stillOpen \in BOOLEAN : SoftDeleteRollbackFail(c, stillOpen)
    \/ FindById(c, 1, NULL)
    \/ FindById(c, 1, Val(1))
    \/ CheckAvailability(c, 1, 1)
    \/ FindAllCount(c, Undefined, Val(1), <<>>, NULL)
    \/ FindAllData(c)
    \/ FindAllFail(c)

Spec == Init /\ [][Next]_vars

\* SpecCalls: one caller issues one call after the other, every call with
\* every outcome, over more rows and over shops in every state
InitCalls ==
  /\ Products = <<>>
  /\ Inventory = <<>>
  /\ Shops \in {s \in [ShopIds -> ShopRows] :
                  /\ s[1].is_active = 1 /\ s[1].is_deleted = 0
                  /\ s[2].is_active = 0 \/ s[2].is_deleted = 1}
  /\ now = 1
  /\ pc = [c \in Callers |-> "idle"]
  /\ txn = [c \in Callers |-> NoTxn]
  /\ counted = [c \in Callers |-> NULL]
  /\ last = NoCall

\* stock_quantity the caller passes for a product
QuantityOf(productId) == IF productId = 1 THEN 0 ELSE 5

NextCalls ==
  \E c \in {"c1"} :
    \/ Len(Products) < MaxProducts
         /\ \E description \in DescriptionArgs :
              Create(c, <<"a">>, description, 100, Undefined)
    \/ CreateFail(c)
    \/ \E productId \in ProductArgs, data \in {NoData, Rename} :
         Update(c, productId, data)
    \/ UpdateFail(c, Rename)
    \/ \E shopId \in ShopArgs, productId \in ProductArgs :
         /\ Room(MaxInventory, shopId, productId)
         /\ AddToInventory(c, shopId, productId, QuantityOf(productId),
                           100, Pcs)
    \/ AddToInventoryFail(c)
    \/ \E productId \in ProductArgs :
         \/ SoftDeleteBegin(c, productId)
         \/ SoftDeleteBeginFail(c, productId)
    \/ SoftDeleteInventory(c)
    \/ SoftDeleteProduct(c)
    \/ SoftDeleteCommit(c)
    \/ \E step \in {"inventory", "product", "commit"} : SoftDeleteThrow(c, step)
    \/ SoftDeleteRollback(c)
    \/ SoftDeleteRollbackFail(c, FALSE)
    \/ \E productId \in 1..MaxProducts, shopId \in {NULL, Val(2)} :
         FindById(c, productId, shopId)
    \/ FindByIdFail(c)
    \/ \E shopId \in ShopIds : CheckAvailability(c, 1, shopId)
    \/ CheckAvailabilityFail(c)
    \/ \E page \in {Undefined, Val(2)} :
         FindAllCount(c, page, Val(1), <<>>, NULL)
    \/ FindAllData(c)
    \/ FindAllFail(c)

SpecCalls == InitCalls /\ [][NextCalls]_vars

\* SpecTxn: one caller, the calls that write rows and every outcome of
\* softDelete, a failed rollback that leaves the transaction open included
NextTxn ==
  \E c \in {"c1"} :
    \/ Len(Products) < MaxProducts
         /\ Create(c, <<"a">>, Undefined, 100, Undefined)
    \/ \E productId \in ProductArgs : Update(c, productId, Rename)
    \/ \E shopId \in ShopIds, productId \in ProductArgs :
         /\ Room(MaxInventory, shopId, productId)
         /\ AddToInventory(c, shopId, productId, 5, 100, Pcs)
    \/ \E productId \in ProductArgs :
         \/ SoftDeleteBegin(c, productId)
         \/ SoftDeleteBeginFail(c, productId)
    \/ SoftDeleteInventory(c)
    \/ SoftDeleteProduct(c)
    \/ SoftDeleteCommit(c)
    \/ \E step \in {"inventory", "product", "commit"} : SoftDeleteThrow(c, step)
    \/ SoftDeleteRollback(c)
    \/ \E stillOpen \in BOOLEAN : SoftDeleteRollbackFail(c, stillOpen)
    \/ \E shopId \in ShopIds : CheckAvailability(c, 1, shopId)

SpecTxn == Init /\ [][NextTxn]_vars

\* SpecList: one caller fills and empties the tables and lists them; the
\* second shop starts in every state
InitList ==
  /\ Products = <<>>
  /\ Inventory = <<>>
  /\ Shops \in {s \in [ShopIds -> ShopRows] :
                  s[1].is_active = 1 /\ s[1].is_deleted = 0}
  /\ now = 1
  /\ pc = [c \in Callers |-> "idle"]
  /\ txn = [c \in Callers |-> NoTxn]
  /\ counted = [c \in Callers |-> NULL]
  /\ last = NoCall

NextList ==
  \E c \in {"c1"} :
    \/ Len(Products) < MaxProducts
         /\ Create(c, <<"a">>, Undefined, 100, Undefined)
    \/ \E productId \in ProductArgs : Update(c, productId, Rename)
    \/ \E shopId \in ShopIds, productId \in ProductArgs :
         /\ Room(MaxInventory, shopId, productId)
         /\ AddToInventory(c, shopId, productId, 5, 100, Pcs)
    \/ \E productId \in ProductArgs : SoftDeleteBegin(c, productId)
    \/ SoftDeleteInventory(c)
    \/ SoftDeleteProduct(c)
    \/ SoftDeleteCommit(c)
    \/ \E page \in {Undefined, Val(2)}, shop_id \in {NULL, Val(2)} :
         FindAllCount(c, page, Val(1), <<>>, shop_id)
    \/ FindAllData(c)
    \/ FindAllFail(c)

SpecList == InitList /\ [][NextList]_vars

\* SpecPage: one caller lists a small store with page and limit below, in
\* and above their ranges
PageInts == {0 - 1, 0, 1, 2}
LimitInts == {0 - 1, 0, 1, 2, 100, 101}

NextPage ==
  \E c \in {"c1"} :
    \/ Len(Products) < MaxProducts
         /\ Create(c, <<"a">>, Undefined, 100, Undefined)
    \/ \E productId \in 1..MaxProducts :
         /\ Room(MaxInventory, 1, productId)
         /\ AddToInventory(c, 1, productId, 5, 100, Pcs)
    \/ \E page \in PageInts, limit \in LimitInts :
         FindAllCount(c, Val(page), Val(limit), <<>>, NULL)
    \/ FindAllData(c)
    \/ FindAllFail(c)

SpecPage == Init /\ [][NextPage]_vars

\* SpecUpdate: one caller patches products with every sparse set of fields
UpdateData ==
  {Rename,
   [NoData EXCEPT !.description = Val(<<"d">>)],
   [NoData EXCEPT !.description = NULL],
   [NoData EXCEPT !.Base_Price = Val(200)],
   [name |-> Val(<<"a", "b">>), description |-> Val(<<"d">>),
    Base_Price |-> Val(200)]}

NextUpdate ==
  \E c \in {"c1"} :
    \/ Len(Products) < MaxProducts
         /\ Create(c, <<"a">>, Undefined, 100, Undefined)
    \/ \E productId \in ProductArgs, data \in UpdateData :
         Update(c, productId, data)
    \/ Room(MaxInventory, 1, 1) /\ AddToInventory(c, 1, 1, 5, 100, Pcs)
    \/ \E productId \in 1..MaxProducts : SoftDeleteBegin(c, productId)
    \/ SoftDeleteInventory(c)
    \/ SoftDeleteProduct(c)
    \/ SoftDeleteCommit(c)

SpecUpdate == Init /\ [][NextUpdate]_vars

\* SpecRace: rows are added while no call is running, then the softDelete
\* calls of two callers interleave at every await and no statement fails
AllIdle == \A c \in Callers : pc[c] = "idle"

NextRace ==
  \E c \in Callers :
    \/ AllIdle /\ Len(Products) < MaxProducts
         /\ Create(c, <<"a">>, Undefined, 100, Undefined)
    \/ \E shopId \in ShopIds, productId \in ProductIds :
         /\ AllIdle
         /\ Products[productId].is_deleted = 0
         /\ Room(MaxInventory, shopId, productId)
         /\ AddToInventory(c, shopId, productId, 5, 100, Pcs)
    \/ \E productId \in ProductIds : SoftDeleteBegin(c, productId)
    \/ SoftDeleteInventory(c)
    \/ SoftDeleteProduct(c)
    \/ SoftDeleteCommit(c)

\* a statement that is not waiting for a lock completes, and so does commit
RaceFairness ==
  \A c \in Callers : /\ WF_vars(SoftDeleteInventory(c))
                      /\ WF_vars(SoftDeleteProduct(c))
                      /\ WF_vars(SoftDeleteCommit(c))

SpecRace == Init /\ [][NextRace]_vars /\ RaceFairness

-----------------------------------------------------------------------------
(* Claims *)

Deleted(row) == row.is_deleted = 1 /\ row.deleted_at # NULL
Untouched(row) == row.is_deleted = 0 /\ row.deleted_at = NULL

\* the softDelete call that finished last returned without throwing
SoftDeleteReturned == last.op = "softDelete" /\ last.error = NULL

\* C1: a softDelete(P) call on a product whose row existed with is_deleted = 0
\* when the call began, and which returns without throwing, returns true;
\* after it the product row and every inventory row of P that was active
\* before the call have is_deleted = 1 and a non-null deleted_at.
C1_SoftDeleteDeletesProductAndInventory ==
  (SoftDeleteReturned /\ last.args.wasActive) =>
     /\ last.result = TRUE
     /\ Deleted(Products[last.args.productId])
     /\ \A id \in last.args.pre : Deleted(Inventory[id])

C1_Witness ==
  /\ SoftDeleteReturned
  /\ last.args.wasActive
  /\ Cardinality(last.args.pre) = 2
  /\ last.result = TRUE
  /\ \E id \in ProductIds : Products[id].is_deleted = 0

\* C2 (as claimed): whenever softDelete(P) returns false, the transaction it
\* commits is a no-op: no product row and no inventory row differs between
\* the state before the commit and the state after it.
C2_FalseMeansNoRowChanged ==
  [][\A c \in Callers :
       (SoftDeleteCommit(c) /\ last'.result = FALSE) =>
          (Products' = Products /\ Inventory' = Inventory)]_vars

\* C3: when the product UPDATE of softDelete(P) throws after the inventory
\* UPDATE has run, then once the call has finished the inventory rows of P
\* that were active before the call are still active with a NULL deleted_at
\* (the others were deleted already and stay so), and the product row still
\* is as it was: active with a NULL deleted_at if it was active.
C3_RollbackRestoresInventory ==
  (last.op = "softDelete" /\ last.args.failedAt = "product") =>
     /\ \A id \in last.args.pre : Untouched(Inventory[id])
     /\ last.args.wasActive => Untouched(Products[last.args.productId])

C3_Witness ==
  /\ last.op = "softDelete"
  /\ last.args.failedAt = "product"
  /\ last.args.wasActive
  /\ Cardinality(last.args.inv) = 2
  /\ last.error = ConnectionError

\* argument values the claims are checked for
ShopIdArgs == {NULL, Val(0), Val(1), Val(2), Val(3)}
PageArgs == {Undefined, Val(0), Val(2)}
LimitArgs == {Undefined, Val(0), Val(101)}
SearchArgs == {<<>>, <<"b">>}
ShopFilterArgs == {NULL, Val(1), Val(2)}

\* C4: for every product P with is_deleted = 1: findAll returns no row of P,
\* findById(P) and findById(P, shop) return null, checkAvailability(P, shop)
\* returns null for every shop, and an update(P, fields) that has just run
\* returned null and left the row of P as it was before the call.
C4_DeletedProductInvisible ==
  \A P \in ProductIds : Products[P].is_deleted = 1 =>
    /\ \A search \in SearchArgs, shop_id \in ShopFilterArgs :
         \A res \in FindAllResults(Undefined, Undefined, search, shop_id) :
           \A k \in DOMAIN res.products : res.products[k].product_id # P
    /\ \A shopId \in ShopIdArgs : FindByIdResults(P, shopId) = {NULL}
    /\ \A shopId \in ShopArgs : CheckAvailabilityResults(P, shopId) = {NULL}
    /\ (last.op = "update" /\ last.error = NULL /\ last.args.productId = P) =>
          /\ last.result = NULL
          /\ last.args.before = Val(Products[P])

C4_Witness ==
  /\ last.op = "update"
  /\ last.error = NULL
  /\ last.result = NULL
  /\ last.args.productId \in ProductIds
  /\ Products[last.args.productId].is_deleted = 1
  /\ \E id \in InventoryIds :
       Inventory[id].product_id = last.args.productId

\* a shop whose inventory findAll and checkAvailability show
ShopListed(shopId) ==
  Shops[shopId].is_active = 1 /\ Shops[shopId].is_deleted = 0

\* caller c is inside softDelete, between tx.begin() and the end of the call
SoftDeleteRunning(c) ==
  pc[c] \in {"begun", "invDone", "prodDone", "catch"}

\* what the reads of another call make of the rows of a running softDelete of
\* caller c: the product is still seen as not deleted while an inventory row
\* of it, active when the call began, is no longer seen
PartialStateSeen(c) ==
  LET P == txn[c].productId
  IN /\ NULL \notin FindByIdResults(P, NULL)
     /\ \E id \in txn[c].pre :
          LET S == Inventory[id].shop_id
          IN \/ \E r \in FindByIdResults(P, Val(S)) :
                  r # NULL /\ r.inventory_id # Val(id)
             \/ ShopListed(S) /\ NULL \in CheckAvailabilityResults(P, S)
             \/ /\ ShopListed(S)
                /\ \E res \in FindAllResults(Undefined, Undefined, <<>>, NULL) :
                     \A k \in DOMAIN res.products :
                       res.products[k].inventory_id # Val(id)

\* C5: while a softDelete(P) call is between its begin and its commit or
\* rollback, no findAll, findById or checkAvailability of another call sees
\* the inventory rows of P soft-deleted while the product row of P is not.
C5_NoPartialStateObserved ==
  \A c \in Callers : SoftDeleteRunning(c) => ~PartialStateSeen(c)

C5_Witness ==
  \E c \in Callers :
    /\ pc[c] = "prodDone"
    /\ txn[c].prod
    /\ txn[c].pre # {}
    /\ txn[c].inv = txn[c].pre
    /\ last.op = "findById"
    /\ last.result # NULL
    /\ last.args.productId = txn[c].productId
    /\ last.args.shopId # NULL
    /\ \E id \in txn[c].pre : last.result.inventory_id = Val(id)

AlreadyExists == NewError("Product already exists in inventory")

\* at most one inventory row with is_deleted = 0 per (shop_id, product_id)
OneActiveRowPerPair ==
  \A shopId \in ShopArgs, productId \in ProductArgs :
    Cardinality(ActivePairRows(shopId, productId)) <= 1

\* the active rows of a pair in a copy of the Inventory table
ActiveIn(table, shopId, productId) ==
  {id \in DOMAIN table : /\ table[id].shop_id = shopId
                         /\ table[id].product_id = productId
                         /\ table[id].is_deleted = 0}

\* C6: addToInventory for a pair that has an active inventory row inserts no
\* row and fails with 'Product already exists in inventory'; no pair ever has
\* two active rows; a failure that is not a uniqueness violation never
\* carries that message.
C6_DuplicateIsDomainError ==
  /\ OneActiveRowPerPair
  /\ last.op = "addToInventory" =>
       IF last.args = NULL
         THEN last.error # AlreadyExists
         ELSE LET active == ActiveIn(last.args.before, last.args.shopId,
                                     last.args.productId)
              IN /\ active # {} => /\ Inventory = last.args.before
                                   /\ last.error = AlreadyExists
                                   /\ last.result = NULL
                 /\ last.error = AlreadyExists => active # {}

C6_Witness ==
  /\ last.op = "addToInventory"
  /\ last.error = AlreadyExists
  /\ last.args # NULL
  /\ Cardinality(ActivePairRows(last.args.shopId, last.args.productId)) = 1
  /\ Len(Inventory) = 1

\* the inventory rows checkAvailability(productId, shopId) is about
AvailablePairRows(productId, shopId) ==
  {id \in ActivePairRows(shopId, productId) :
     /\ productId \in ProductIds
     /\ Products[productId].is_deleted = 0
     /\ shopId \in ShopIds
     /\ ShopListed(shopId)}

\* C7: checkAvailability returns null exactly when the pair has no active
\* inventory row of a non-deleted product in an active, non-deleted shop;
\* otherwise exists = true, the row's stock quantity and available =
\* (stock quantity > 0).
C7_AvailabilityOfPair ==
  /\ \A productId \in ProductArgs, shopId \in ShopArgs :
       LET rows == AvailablePairRows(productId, shopId)
           results == CheckAvailabilityResults(productId, shopId)
       IN /\ NULL \in results <=> rows = {}
          /\ \A r \in results \ {NULL} :
               \E id \in rows :
                 /\ r.exists = TRUE
                 /\ r.stock_quantity = Inventory[id].stock_quantity
                 /\ r.available = (Inventory[id].stock_quantity > 0)
  /\ (last.op = "checkAvailability" /\ last.error = NULL) =>
       last.result \in CheckAvailabilityResults(last.args.productId,
                                                last.args.shopId)

C7_Witness ==
  /\ last.op = "checkAvailability"
  /\ last.result = [exists |-> TRUE, available |-> FALSE, stock_quantity |-> 0]
  /\ \E id \in AvailablePairRows(last.args.productId, last.args.shopId) :
       Inventory[id].stock_quantity = 0

\* C8: findById with a shopId returns a non-null record for every product
\* whose row has is_deleted = 0, whatever the inventory and shop rows are.
C8_FindByIdAlwaysFindsProduct ==
  \A productId \in ProductIds :
    Products[productId].is_deleted = 0 =>
      \A shopId \in ShopArgs :
        NULL \notin FindByIdResults(productId, Val(shopId))

\* C9: update with none of name, description, Base_Price defined fails with
\* 'No fields to update', issues no statement, and leaves every product,
\* inventory and shop row as it was.
C9_NoFieldsNoStatement ==
  [][\A c \in Callers, productId \in ProductArgs :
       Update(c, productId, NoData) =>
         /\ last'.error = NewError("No fields to update")
         /\ last'.result = NULL
         /\ last'.stmts = 0
         /\ UNCHANGED <<Products, Inventory, Shops>>]_vars

C9_Witness ==
  /\ last.op = "update"
  /\ last.args # NULL
  /\ last.args.data = NoData
  /\ last.error = NewError("No fields to update")
  /\ last.stmts = 0
  /\ last.args.before # NULL
  /\ last.args.before.v.is_deleted = 0

\* the limit findAll works with: 20 when none is given, else within 1..100
ClampedLimit(limit) ==
  IF limit = Undefined THEN 20
  ELSE IF limit.v < 1 THEN 1
  ELSE IF limit.v > 100 THEN 100
  ELSE limit.v

\* the products findAll counts: not deleted, with an active inventory row in
\* an active, non-deleted shop, that pass the shop and search filters
MatchingProducts(search, shop_id) ==
  {P \in ProductIds :
     /\ Products[P].is_deleted = 0
     /\ search # <<>> => \/ Like(Val(Products[P].name), search)
                         \/ Like(Products[P].description, search)
     /\ \E id \in InventoryIds :
          /\ Inventory[id].product_id = P
          /\ Inventory[id].is_deleted = 0
          /\ Inventory[id].shop_id \in ShopIds
          /\ ShopListed(Inventory[id].shop_id)
          /\ Truthy(shop_id) => Inventory[id].shop_id = shop_id.v}

\* rows <= limit, and totalPages is the least n with n * limit >= total
PageShape(res, limit) ==
  LET p == res.pagination
  IN /\ p.limit = ClampedLimit(limit)
     /\ p.limit \in 1..100
     /\ Len(res.products) <= p.limit
     /\ p.totalPages * p.limit >= p.total
     /\ (p.totalPages - 1) * p.limit < p.total
     /\ p.total = 0 => p.totalPages = 0

\* C10: findAll returns at most limit rows (limit after clamping) and
\* totalPages = ceil(total / limit), total being the number of distinct
\* products that match the filter; total = 0 gives totalPages = 0.
C10_PageWithinLimit ==
  /\ \A page \in PageArgs, limit \in LimitArgs,
        search \in SearchArgs, shop_id \in ShopFilterArgs :
       \A res \in FindAllResults(page, limit, search, shop_id) :
         /\ PageShape(res, limit)
         /\ res.pagination.total = Cardinality(MatchingProducts(search, shop_id))
  /\ (last.op = "findAll" /\ last.error = NULL) =>
       /\ PageShape(last.result, last.args.limit)
       /\ last.result.pagination.total =
            Cardinality(MatchingProducts(last.args.search, last.args.shop_id))

C10_Witness ==
  /\ last.op = "findAll"
  /\ last.error = NULL
  /\ Len(last.result.products) = 1
  /\ last.result.pagination =
       [total |-> 2, page |-> 2, limit |-> 1, totalPages |-> 2]

\* C11: for every integer page < 1 and every integer limit outside 1..100
\* findAll does not raise: the page used is 1, the limit used is 1 or 100,
\* the offset is (page - 1) * limit of the clamped values and never negative;
\* values in range are used unchanged.
C11_PageAndLimitClamped ==
  /\ \A page \in PageInts, limit \in LimitInts :
       LET p == Paginate(Val(page), Val(limit))
       IN /\ p.safePage = (IF page < 1 THEN 1 ELSE page)
          /\ p.safeLimit = (IF limit < 1 THEN 1
                            ELSE IF limit > 100 THEN 100 ELSE limit)
          /\ p.offset = (p.safePage - 1) * p.safeLimit
          /\ p.offset >= 0
          /\ FindAllResults(Val(page), Val(limit), <<>>, NULL) # {}
  /\ (last.op = "findAll" /\ last.args # NULL) =>
       /\ last.error = NULL
       /\ last.result.pagination.page =
            (IF last.args.page.v < 1 THEN 1 ELSE last.args.page.v)
       /\ last.result.pagination.limit = ClampedLimit(last.args.limit)

C11_Witness ==
  /\ last.op = "findAll"
  /\ last.args # NULL
  /\ last.args.page = Val(0 - 1)
  /\ last.args.limit = Val(101)
  /\ last.error = NULL
  /\ last.result.pagination.page = 1
  /\ last.result.pagination.limit = 100
  /\ Len(last.result.products) = 2

\* C12: after create and addToInventory(S, P, q) with q > 0 in an active,
\* non-deleted shop S, checkAvailability(P, S) returns exists, available and
\* q; a following softDelete(P) returns true; every checkAvailability(P, S)
\* after it returns null.
C12_AddCheckDeleteCheck ==
  /\ \A P \in ProductIds, S \in ShopIds :
       ShopListed(S) =>
         /\ (Products[P].is_deleted = 0 /\ ActivePairRows(S, P) # {}) =>
              CheckAvailabilityResults(P, S) =
                {[exists |-> TRUE, available |-> TRUE,
                  stock_quantity |-> Inventory[id].stock_quantity] :
                   id \in ActivePairRows(S, P)}
         /\ Products[P].is_deleted = 1 =>
              CheckAvailabilityResults(P, S) = {NULL}
  /\ (SoftDeleteReturned /\ last.args.wasActive) =>
       /\ last.result = TRUE
       /\ Products[last.args.productId].is_deleted = 1
  /\ (last.op = "checkAvailability" /\ last.error = NULL) =>
       LET P == last.args.productId
           S == last.args.shopId
       IN IF P \in ProductIds /\ Products[P].is_deleted = 0
             /\ ShopListed(S) /\ ActivePairRows(S, P) # {}
            THEN last.result # NULL /\ last.result.available
                 /\ last.result.stock_quantity = 5
            ELSE last.result = NULL

C12_Witness ==
  /\ last.op = "checkAvailability"
  /\ last.result = NULL
  /\ ShopListed(last.args.shopId)
  /\ last.args.productId \in ProductIds
  /\ Products[last.args.productId].is_deleted = 1
  /\ \E id \in InventoryIds :
       /\ Inventory[id].product_id = last.args.productId
       /\ Inventory[id].shop_id = last.args.shopId
       /\ Inventory[id].stock_quantity = 5
       /\ Deleted(Inventory[id])

\* C13: when a step of softDelete throws (begin, the inventory UPDATE, the
\* product UPDATE), the caller receives the error of that step, unmodified,
\* and the transaction of the call is no longer open, also when the
\* rollback can fail.
C13_OriginalErrorAfterRollback ==
  (last.op = "softDelete"
     /\ last.args.failedAt \in {"begin", "inventory", "product"}) =>
    /\ last.error = ConnectionError
    /\ \A c \in Callers : pc[c] = "idle" => ~txn[c].open

\* the value a field has after an update: the one in data when data has it
FieldAfter(given, old) == IF given = Undefined THEN old ELSE given.v

\* C14: update on a non-deleted product sets exactly the fields of name,
\* description, Base_Price that data has and changes nothing else in any
\* table; with no non-deleted product of that id it returns null without
\* raising and changes nothing.
C14_UpdateFrame ==
  [][\A c \in Callers :
       LET productId == last'.args.productId
           data == last'.args.data
       IN (/\ last'.op = "update"
           /\ last'.args # NULL
           /\ data # NoData
           /\ Update(c, productId, data)) =>
         /\ Inventory' = Inventory
         /\ Shops' = Shops
         /\ Len(Products') = Len(Products)
         /\ \A id \in ProductIds : id # productId => Products'[id] = Products[id]
         /\ last'.error = NULL
         /\ IF productId \in ProductIds /\ Products[productId].is_deleted = 0
              THEN LET old == Products[productId]
                       new == Products'[productId]
                   IN /\ new.name = FieldAfter(data.name, old.name)
                      /\ new.description =
                           (IF data.description = Undefined
                              THEN old.description ELSE data.description)
                      /\ new.Base_Price =
                           FieldAfter(data.Base_Price, old.Base_Price)
                      /\ new.is_deleted = old.is_deleted
                      /\ new.deleted_at = old.deleted_at
                      /\ new.image_url = old.image_url
                      /\ new.created_at = old.created_at
                      /\ last'.result = WithId(new, productId)
              ELSE /\ Products' = Products
                   /\ last'.result = NULL]_vars

C14_Witness ==
  /\ last.op = "update"
  /\ last.args # NULL
  /\ last.args.data = [NoData EXCEPT !.Base_Price = Val(200)]
  /\ last.result # NULL
  /\ last.result.description = Val(<<"d">>)
  /\ last.result.name = <<"a", "b">>
  /\ last.args.before.v.Base_Price = 100
  /\ Len(Products) = 2
  /\ Len(Inventory) > 0

\* C15: every softDelete call ends, on every exit path, with its transaction
\* committed or rolled back: a caller that is not inside softDelete holds no
\* open transaction.
C15_NoOpenTransactionAfterCall ==
  \A c \in Callers : ~SoftDeleteRunning(c) => ~txn[c].open

\* C16: no call removes a row or un-deletes one: a product or inventory row
\* of one state exists in the next, and with is_deleted = 1 it keeps it.
C16_NoHardDeleteNoUndelete ==
  [][/\ Len(Products') >= Len(Products)
     /\ Len(Inventory') >= Len(Inventory)
     /\ \A id \in ProductIds :
          Products[id].is_deleted = 1 => Products'[id].is_deleted = 1
     /\ \A id \in InventoryIds :
          /\ Inventory'[id].product_id = Inventory[id].product_id
          /\ Inventory'[id].shop_id = Inventory[id].shop_id
          /\ Inventory[id].is_deleted = 1 => Inventory'[id].is_deleted = 1]_vars

C16_Witness ==
  /\ last.op = "softDelete"
  /\ last.args.failedAt = "product"
  /\ Len(Inventory) = 2
  /\ last.args.productId \in ProductIds
  /\ Products[last.args.productId].is_deleted = 1
  /\ \E id \in InventoryIds :
       /\ Inventory[id].product_id = last.args.productId
       /\ Inventory[id].is_deleted = 1
  /\ \E id \in last.args.inv : Inventory[id].is_deleted = 0

\* C17: in every state reached by committed calls, a product row with
\* is_deleted = 1 has no inventory row with is_deleted = 0.
C17_DeletedProductHasNoActiveInventory ==
  \A P \in ProductIds :
    Products[P].is_deleted = 1 =>
      \A id \in InventoryIds :
        Inventory[id].product_id = P => Inventory[id].is_deleted = 1

\* C18: for a fixed store state, filter and limit, the pages 1..totalPages of
\* findAll together return every joined row that matches the filter.
C18_PagesCoverEveryRow ==
  \A limit \in {Undefined, Val(1)}, search \in SearchArgs,
     shop_id \in ShopFilterArgs :
    \* the data query returning the rows in the same order q for every page
    \A q \in Orderings(ListMatches(search, shop_id)) :
      LET totalPages ==
            ListResult(CountDistinct(search, shop_id),
                       Paginate(Val(1), limit), <<>>).pagination.totalPages
          Page(n) == FetchPage(q, Paginate(Val(n), limit).offset,
                               Paginate(Val(n), limit).safeLimit)
      IN \A id \in ListMatches(search, shop_id) :
           \E n \in 1..totalPages : \E k \in DOMAIN Page(n) : Page(n)[k] = id

\* the commit of caller c is the one that deletes the product of its call
CommitDeletesProduct(c) ==
  LET P == txn[c].productId
  IN /\ P \in ProductIds
     /\ Products[P].is_deleted = 0
     /\ Products'[P].is_deleted = 1

\* every caller idle after a softDelete of a product that was active at begin
RaceOver ==
  /\ AllIdle
  /\ SoftDeleteReturned
  /\ last.args.wasActive

\* C19: when two softDelete(P) calls for the same active product interleave,
\* both finish; the call whose commit deletes the product returns true and
\* the other returns false, so exactly one returns true; at the end the
\* product and all its inventory rows are soft-deleted.
C19_ConcurrentSoftDeletes ==
  /\ [][\A c \in Callers :
          SoftDeleteCommit(c) =>
            /\ last'.error = NULL
            /\ last'.result = CommitDeletesProduct(c)]_vars
  /\ [](RaceOver =>
          /\ Deleted(Products[last.args.productId])
          /\ \A id \in InventoryIds :
               Inventory[id].product_id = last.args.productId =>
                 Deleted(Inventory[id]))
  /\ \A c \in Callers : SoftDeleteRunning(c) ~> (pc[c] = "idle")

C19_Witness ==
  /\ RaceOver
  /\ last.result = FALSE
  /\ Cardinality(last.args.pre) = 2
  /\ last.args.inv = {}
  /\ \A id \in last.args.pre : Deleted(Inventory[id])

====
